---- MODULE Spec2Model ----
(***************************************************************************)
(* Model of the AI program consistency engine of plasticity-rs             *)
(* (src/src/program.rs): the Entry Store, the Reference Resolver, the      *)
(* Mutation Engine (add_entry / delete_entry / update_indexes) and the     *)
(* Tree Builder (roots / ai_to_tree / to_tree).                            *)
(*                                                                         *)
(* A container is a record                                                 *)
(*   [AI, Action, Behavior, Query : sequences of entries,                  *)
(*    Demo  : the DemoAIActionIdx object, a sequence of slot values,       *)
(*    Extra : the entries of any other top-level list of the file,         *)
(*    order : the stored order of the top-level lists]                     *)
(* An entry is [key, cls, hasChild, child, beh]: key n stands for the      *)
(* hashed slot name "<Segment>_n", cls for Def.ClassName, hasChild for the *)
(* presence of a ChildIdx object, child / beh for the slot values of the   *)
(* ChildIdx and BehaviorIdx objects in stored order (a slot's position     *)
(* stands for its key).  No code path tells an absent BehaviorIdx object   *)
(* from an empty one, so beh = <<>> stands for both.  Slot values are Int   *)
(* parameters; parameters of other types are skipped by every scan.        *)
(* Sequences are 1-based here, indices of the program are 0-based.         *)
(***************************************************************************)
EXTENDS Integers, Sequences, FiniteSets, TLC

\* ---------------------------------------------------------------- bounds
MaxOther == 1
MaxRecs == 2
MaxRefs == 2
MaxExtra == 1
MaxTotal == 4
MaxOps == 2

\* ------------------------------------------------------------- constants
Categories == {"AI", "Action", "Behavior", "Query"}
CanonicalOrder == <<"AI", "Action", "Behavior", "Query">>
\* Class names of the catalogue, per category.
Classes(category) == IF category = "AI" THEN {"Leaf", "Node"} ELSE {"Leaf"}

\* prog: the container held by the AIProgram value.
\* last: the operation performed last, with its arguments, the container it
\*       was called on (pre) and what it returned; prior: the one before.
\* nops: number of operations performed so far.
\* app:  the state of the application around the container (app.rs).
VARIABLES prog, last, prior, nops, app

vars == <<prog, last, prior, nops, app>>

\* ------------------------------------------------------------- utilities
SetMax(S) == CHOOSE x \in S : \A y \in S : y <= x

RECURSIVE Flatten(_)
Flatten(ss) == IF ss = <<>> THEN <<>> ELSE Head(ss) \o Flatten(Tail(ss))

RemoveAt(s, k) == [j \in 1..(Len(s) - 1) |-> IF j < k THEN s[j] ELSE s[j + 1]]

\* `v.as_int().unwrap() as usize == idx`: a negative i32 sign-extends to a
\* value above every index, so only a non-negative v can compare equal.
IntIsIdx(v, idx) == v >= 0 /\ v = idx

\* ----------------------------------------------------------- Entry Store
ais(p) == p.AI

actions(p) == p.Action

behaviors(p) == p.Behavior

queries(p) == p.Query

items(p) == Flatten([n \in 1..Len(p.order) |-> p[p.order[n]]])

len(p) == Len(items(p))

actions_offset(p) == Len(p.AI)

behaviors_offset(p) == Len(p.AI) + Len(p.Action)

\* queries_offset leaving out the Action segment.
queries_offset_no_action(p) == Len(p.AI) + Len(p.Behavior)

queries_offset(p) == Len(p.AI) + Len(p.Action) + Len(p.Behavior)

\* The (segment, 1-based position) pair the index arithmetic resolves idx to.
Locate(p, idx) ==
  IF idx < actions_offset(p) THEN <<"AI", idx + 1>>
  ELSE IF idx < behaviors_offset(p) THEN <<"Action", idx - actions_offset(p) + 1>>
  ELSE IF idx < queries_offset(p) THEN <<"Behavior", idx - behaviors_offset(p) + 1>>
  ELSE <<"Query", idx - queries_offset(p) + 1>>

\* get_index(..).unwrap() panics when the position is past the segment.
Panic == [panic |-> TRUE]

item_at_index(p, idx) ==
  LET loc == Locate(p, idx) IN
  IF loc[2] <= Len(p[loc[1]]) THEN p[loc[1]][loc[2]] ELSE Panic

\* The same index arithmetic with get_index_mut(..).unwrap().
item_mut_at_index(p, idx) ==
  LET loc == Locate(p, idx) IN
  IF loc[2] <= Len(p[loc[1]]) THEN p[loc[1]][loc[2]] ELSE Panic

\* ---------------------------------------------------- Reference Resolver
\* Slots of one parameter object holding idx.
Matching(obj, idx) == {k \in 1..Len(obj) : IntIsIdx(obj[k], idx)}

\* The matches of one record are collected into a HashMap keyed by the
\* record's index: a later (i, key) pair overwrites an earlier one, so one
\* slot per record survives, the last in stored order.
KeptOne(obj, idx) ==
  LET m == Matching(obj, idx) IN IF m = {} THEN {} ELSE {SetMax(m)}

\* Err ("Invalid AI") when an AI record has no ChildIdx object; otherwise
\* the locations found: demos as slot positions, the others as
\* <<0-based index in the segment, slot position>>.
references(p, idx) ==
  IF \E i \in 1..Len(p.AI) : ~p.AI[i].hasChild
  THEN [ok |-> FALSE]
  ELSE [ok |-> TRUE,
        demos |-> Matching(p.Demo, idx),
        ai_children |->
          UNION {{<<i - 1, k>> : k \in KeptOne(p.AI[i].child, idx)} : i \in 1..Len(p.AI)},
        ai_behaviours |->
          UNION {{<<i - 1, k>> : k \in KeptOne(p.AI[i].beh, idx)} : i \in 1..Len(p.AI)},
        action_behaviours |->
          UNION {{<<i - 1, k>> : k \in KeptOne(p.Action[i].beh, idx)} : i \in 1..Len(p.Action)}]

\* ------------------------------------------------------- Mutation Engine
\* One parameter object after `insert(key, Int(v))` on each slot of ks.
Overwrite(obj, ks, v) == [k \in 1..Len(obj) |-> IF k \in ks THEN v ELSE obj[k]]

SlotsOf(locs, i) == {l[2] : l \in {x \in locs : x[1] = i}}

\* The value stored into BehaviorIdx slots.
behaviour_idx(p, new) == IF new > 0 THEN new - behaviors_offset(p) ELSE new

\* update_indexes(old, new): [ok, p]; on Err the container is untouched.
update_indexes(p, old, new) ==
  LET refs == references(p, old) IN
  IF ~refs.ok THEN [ok |-> FALSE, p |-> p]
  ELSE
    LET b == behaviour_idx(p, new)
        newAI == [i \in 1..Len(p.AI) |->
                    [p.AI[i] EXCEPT
                       !.child = Overwrite(p.AI[i].child, SlotsOf(refs.ai_children, i - 1), new),
                       !.beh = Overwrite(p.AI[i].beh, SlotsOf(refs.ai_behaviours, i - 1), b)]]
        newAction == [i \in 1..Len(p.Action) |->
                    [p.Action[i] EXCEPT
                       !.beh = Overwrite(p.Action[i].beh, SlotsOf(refs.action_behaviours, i - 1), b)]]
    IN [ok |-> TRUE,
        p |-> [p EXCEPT !.Demo = Overwrite(p.Demo, refs.demos, new),
                        !.AI = newAI,
                        !.Action = newAction]]

\* The class catalogue: the ChildIdx object blank_ai seeds for a class.
\* "Leaf" has no child definition (no ChildIdx object is inserted),
\* "Node" declares two children (two slots holding -1).
blank_ai(category, class) ==
  [key |-> 0, cls |-> class,
   hasChild |-> (class = "Node"),
   child |-> IF class = "Node" THEN <<-1, -1>> ELSE <<>>,
   beh |-> <<>>]

\* (lo..len).rev().try_for_each(|i| update_indexes(i, i + 1)): i runs from
\* hi down to lo; the first Err stops the loop.
RECURSIVE ShiftUp(_, _, _)
ShiftUp(p, lo, hi) ==
  IF hi < lo THEN [ok |-> TRUE, p |-> p]
  ELSE LET r == update_indexes(p, hi, hi + 1) IN
       IF ~r.ok THEN r ELSE ShiftUp(r.p, lo, hi - 1)

\* IndexMap::insert_full(key, entry).0 on one segment: an existing key has
\* its value replaced in place and its position returned, a new key is
\* appended.  Result [seg, at] with at the 0-based position.
insert_full(seg, k, entry) ==
  LET e == [entry EXCEPT !.key = k]
      hit == {j \in 1..Len(seg) : seg[j].key = k}
  IN IF hit # {}
     THEN LET j == CHOOSE x \in hit : TRUE IN
          [seg |-> [seg EXCEPT ![j] = e], at |-> j - 1]
     ELSE [seg |-> Append(seg, e), at |-> Len(seg)]

SegOffset(p, category) ==
  CASE category = "AI" -> 0
    [] category = "Action" -> actions_offset(p)
    [] category = "Behavior" -> behaviors_offset(p)
    [] category = "Query" -> queries_offset(p)

\* First index of the segments after category (len for Query).
SegEnd(p, category) ==
  CASE category = "AI" -> actions_offset(p)
    [] category = "Action" -> behaviors_offset(p)
    [] category = "Behavior" -> queries_offset(p)
    [] category = "Query" -> len(p)

\* add_entry(category, class): [ok, p, ret].
add_entry(p, category, class) ==
  LET entry == blank_ai(category, class)
      r == IF category = "Query" THEN [ok |-> TRUE, p |-> p]
           ELSE ShiftUp(p, SegEnd(p, category), len(p) - 1)
  IN IF ~r.ok THEN [ok |-> FALSE, p |-> r.p, ret |-> -1]
     ELSE LET q == r.p
              new_idx == SegEnd(q, category) - SegOffset(q, category)
              ins == insert_full(q[category], new_idx, entry)
          IN [ok |-> TRUE,
              p |-> [q EXCEPT ![category] = ins.seg],
              ret |-> ins.at + SegOffset(q, category)]

\* (idx..len).try_for_each(|i| update_indexes(i, i - 1)): ascending.
RECURSIVE ShiftDown(_, _, _)
ShiftDown(p, i, hi) ==
  IF i > hi THEN [ok |-> TRUE, p |-> p]
  ELSE LET r == update_indexes(p, i, i - 1) IN
       IF ~r.ok THEN r ELSE ShiftDown(r.p, i + 1, hi)

\* The segment left with the keys it had.
Renumber_kept(seg) == seg

\* The segment rebuilt with keys "<category>_<i>" by position.
Renumber(seg) == [i \in 1..Len(seg) |-> [seg[i] EXCEPT !.key = i - 1]]

\* swap_remove_index: the last entry takes the place of the removed one.
shift_remove_index_swap(seg, k) ==
  IF k <= Len(seg)
  THEN [i \in 1..(Len(seg) - 1) |-> IF i = k THEN seg[Len(seg)] ELSE seg[i]]
  ELSE seg

\* shift_remove_index leaving the entry in place.
shift_remove_index_keep(seg, k) == seg

\* shift_remove_index(k): nothing happens when k is past the end.
shift_remove_index(seg, k) == IF k <= Len(seg) THEN RemoveAt(seg, k) ELSE seg

\* delete_entry removing the record before its first update_indexes call.
delete_entry_remove_first(p, idx) ==
  LET loc == Locate(p, idx)
      category == loc[1]
      q == [p EXCEPT ![category] = shift_remove_index(p[category], loc[2])]
      r == update_indexes(q, idx, -1)
  IN IF ~r.ok THEN [ok |-> FALSE, p |-> r.p]
     ELSE LET s == ShiftDown(r.p, idx, len(r.p) - 1) IN
          IF ~s.ok THEN [ok |-> FALSE, p |-> s.p]
          ELSE [ok |-> TRUE,
                p |-> [s.p EXCEPT ![category] = Renumber(s.p[category])]]

\* delete_entry(idx): [ok, p].
delete_entry(p, idx) ==
  LET r == update_indexes(p, idx, -1) IN
  IF ~r.ok THEN [ok |-> FALSE, p |-> r.p]
  ELSE LET loc == Locate(r.p, idx)
           category == loc[1]
           q == [r.p EXCEPT ![category] = shift_remove_index(r.p[category], loc[2])]
           s == ShiftDown(q, idx, len(q) - 1)
       IN IF ~s.ok THEN [ok |-> FALSE, p |-> s.p]
          ELSE [ok |-> TRUE,
                p |-> [s.p EXCEPT ![category] = Renumber(s.p[category])]]

\* ---------------------------------------------------------- Tree Builder
\* roots(): [ok, v]; Err as soon as references() fails for an AI record.
\* RootSeq reading the BehaviorIdx matches instead of the ChildIdx matches.
RootSeq_behaviours(p, n) ==
  LET RECURSIVE Go(_)
      Go(i) == IF i >= n THEN <<>>
               ELSE (IF references(p, i).ai_behaviours = {} THEN <<i>> ELSE <<>>) \o Go(i + 1)
  IN Go(0)

RootSeq(p, n) ==
  LET RECURSIVE Go(_)
      Go(i) == IF i >= n THEN <<>>
               ELSE (IF references(p, i).ai_children = {} THEN <<i>> ELSE <<>>) \o Go(i + 1)
  IN Go(0)

roots(p) ==
  IF Len(ais(p)) > 0 /\ ~references(p, 0).ok
  THEN [ok |-> FALSE, v |-> <<>>]
  ELSE [ok |-> TRUE, v |-> RootSeq(p, Len(ais(p)))]

\* A call that never returns a value: `items[idx]` out of bounds panics,
\* recursion along a ChildIdx cycle overflows the stack.
Crash(why) == [crash |-> why]

IsCrash(t) == "crash" \in DOMAIN t

FirstCrash(ts) ==
  LET bad == {k \in 1..Len(ts) : IsCrash(ts[k])} IN
  IF bad = {} THEN <<>> ELSE <<ts[CHOOSE k \in bad : \A j \in bad : k <= j]>>

\* ai_to_tree(idx).  fuel counts the frames still allowed on the current
\* path: a path of more than len(p) + 1 frames revisits an index, so the
\* recursion has entered a cycle and never returns.
RECURSIVE ai_to_tree(_, _, _)
ai_to_tree(p, idx, fuel) ==
  IF fuel = 0 THEN Crash("StackOverflow")
  ELSE IF idx >= Len(items(p)) THEN Crash("IndexOutOfBounds")
  ELSE
    LET ai == items(p)[idx + 1]
        slots == IF ai.hasChild THEN SelectSeq(ai.child, LAMBDA v : v >= 0) ELSE <<>>
        kids == [k \in 1..Len(slots) |-> ai_to_tree(p, slots[k], fuel - 1)]
        bad == FirstCrash(kids)
    IN IF bad # <<>> THEN bad[1]
       ELSE [name |-> ai.cls, idx |-> idx, kids |-> kids]

\* to_tree(): [ok, v] or a crash.
to_tree(p) ==
  LET r == roots(p) IN
  IF ~r.ok THEN [ok |-> FALSE, v |-> <<>>]
  ELSE LET ts == [k \in 1..Len(r.v) |-> ai_to_tree(p, r.v[k], len(p) + 1)]
           bad == FirstCrash(ts)
       IN IF bad # <<>> THEN bad[1] ELSE [ok |-> TRUE, v |-> ts]

\* ------------------------------------------------------- loaded containers
\* Parameter objects of at most n slots with values in vals.
Objs(n, vals) == UNION {[1..k -> vals] : k \in 0..n}

\* Entries as a file can hold them; at most budget reference slots each.
\* Only AI entries carry a ChildIdx object, AI and Action entries may carry
\* BehaviorIdx slots.
LoadedEntries(category, budget, vals) ==
  LET cs == IF category = "AI"
            THEN {<<TRUE, c>> : c \in Objs(budget, vals)} \cup {<<FALSE, <<>> >>}
            ELSE {<<FALSE, <<>> >>}
  IN UNION {
       {[key |-> 0, cls |-> "Loaded", hasChild |-> c[1], child |-> c[2], beh |-> b] :
          b \in IF category \in {"AI", "Action"}
                THEN Objs(budget - Len(c[2]), vals) ELSE {<<>>}} : c \in cs}

Slots(e) == Len(e.child) + Len(e.beh)

\* <<segment, slots used>> for the segments of n entries within the budget.
RECURSIVE LoadedSegs(_, _, _, _)
LoadedSegs(category, n, budget, vals) ==
  IF n = 0 THEN {<< <<>>, 0 >>}
  ELSE UNION {
         {<< <<e>> \o r[1], Slots(e) + r[2] >> :
            r \in LoadedSegs(category, n - 1, budget - Slots(e), vals)} :
         e \in LoadedEntries(category, budget, vals)}

\* Slot names "<Segment>_<base>", "<Segment>_<base+1>", ... by position.
Numbered(seg, base) == [i \in 1..Len(seg) |-> [seg[i] EXCEPT !.key = base + i - 1]]

\* Stored orders of the top-level lists a file may have.
Orders == {CanonicalOrder, <<"Action", "AI", "Behavior", "Query">>}

\* Files number the slots of a segment from 0 or from 1.
KeyBases == {0, 1}

\* <<slot numbering, stored order, entries in another top-level list>> of
\* the files loaded: the four lists in either order, or followed by one
\* more top-level list.
Layouts ==
  {<<b, o, 0>> : b \in KeyBases, o \in Orders}
  \cup {<<0, CanonicalOrder \o <<"Extra">>, n>> : n \in 1..MaxExtra}

PlainEntry == [key |-> 0, cls |-> "Loaded", hasChild |-> FALSE, child |-> <<>>, beh |-> <<>>]

\* An absent entry of last_selected.
NoSel == -1

\* The application before a file is opened: no container, no worker task,
\* an empty channel and an empty displayed tree.  phase is the position in
\* update(): "render" before the render_* calls, "events" before
\* handle_events.
AppIdle ==
  [loaded |-> FALSE, tasks |-> <<>>, chan |-> <<>>, tree |-> <<>>,
   selected_ai |-> 0, last_selected |-> [c \in Categories |-> NoSel], tab |-> "AI",
   show_add |-> FALSE, show_confirm |-> FALSE, show_error |-> FALSE,
   show_busy |-> FALSE, dead |-> FALSE, phase |-> "render"]

InitProg ==
  \E nAI \in 0..MaxRecs, nAc \in 0..MaxOther, nBe \in 0..MaxOther, nQu \in 0..MaxOther :
       /\ nAI + nAc + nBe + nQu <= MaxRecs
       /\ LET vals == -1..(nAI + nAc + nBe + nQu - 1) IN
          \E a \in LoadedSegs("AI", nAI, MaxRefs, vals) :
          \E c \in LoadedSegs("Action", nAc, MaxRefs - a[2], vals) :
          \E d \in Objs(MaxRefs - a[2] - c[2], vals) :
          \E lay \in Layouts :
            prog = [AI |-> Numbered(a[1], lay[1]),
                    Action |-> Numbered(c[1], lay[1]),
                    Behavior |-> Numbered([i \in 1..nBe |-> PlainEntry], lay[1]),
                    Query |-> Numbered([i \in 1..nQu |-> PlainEntry], lay[1]),
                    Extra |-> Numbered([i \in 1..lay[3] |-> PlainEntry], lay[1]),
                    Demo |-> d,
                    order |-> lay[2]]

Init ==
  /\ InitProg
  /\ app = AppIdle
  /\ last = [op |-> "load"]
  /\ prior = [op |-> "none"]
  /\ nops = 0

\* ----------------------------------------------------------------- actions
Insert(category, class) ==
  /\ nops < MaxOps
  /\ len(prog) < MaxTotal
  /\ LET r == add_entry(prog, category, class) IN
       /\ prog' = r.p
       /\ last' = [op |-> "add_entry", category |-> category, class |-> class,
                   pre |-> prog, ok |-> r.ok, ret |-> r.ret]
  /\ prior' = last
  /\ nops' = nops + 1
  /\ UNCHANGED app

Delete(idx) ==
  /\ nops < MaxOps
  /\ LET r == delete_entry(prog, idx) IN
       /\ prog' = r.p
       /\ last' = [op |-> "delete_entry", idx |-> idx, pre |-> prog, ok |-> r.ok]
  /\ prior' = last
  /\ nops' = nops + 1
  /\ UNCHANGED app

\* roots() and to_tree() take &self: the container is not written.
Roots ==
  /\ nops < MaxOps
  /\ last' = [op |-> "roots", pre |-> prog, res |-> roots(prog)]
  /\ prior' = last
  /\ nops' = nops + 1
  /\ UNCHANGED app
  /\ UNCHANGED prog

\* to_tree() consuming the ChildIdx slots it walks.
ToTree_consuming ==
  /\ nops < MaxOps
  /\ last' = [op |-> "to_tree", pre |-> prog, res |-> to_tree(prog)]
  /\ prior' = last
  /\ nops' = nops + 1
  /\ UNCHANGED app
  /\ prog' = [prog EXCEPT !.AI = [i \in 1..Len(prog.AI) |->
                 [prog.AI[i] EXCEPT !.child = [k \in 1..Len(prog.AI[i].child) |-> -1]]]]

ToTree ==
  /\ nops < MaxOps
  /\ last' = [op |-> "to_tree", pre |-> prog, res |-> to_tree(prog)]
  /\ prior' = last
  /\ nops' = nops + 1
  /\ UNCHANGED app
  /\ UNCHANGED prog

Next ==
  \/ \E category \in Categories : \E class \in Classes(category) : Insert(category, class)
  \/ \E idx \in 0..len(prog) : Delete(idx)
  \/ Roots
  \/ ToTree

Spec == Init /\ [][Next]_vars

\* The Reindex primitive applied on its own to a loaded container.
Reindex(old, new) ==
  /\ nops < MaxOps
  /\ LET r == update_indexes(prog, old, new) IN
       /\ prog' = r.p
       /\ last' = [op |-> "update_indexes", old |-> old, new |-> new,
                   pre |-> prog, ok |-> r.ok]
  /\ prior' = last
  /\ nops' = nops + 1
  /\ UNCHANGED app

NextReindex == \E old \in 0..(len(prog) - 1) : \E new \in -1..len(prog) : Reindex(old, new)

SpecReindex == Init /\ [][NextReindex]_vars

\* Record lookups on a loaded container; the borrow is dropped, nothing is
\* written.
ItemAt(idx) ==
  /\ nops < MaxOps
  /\ last' = [op |-> "item_at_index", idx |-> idx, pre |-> prog,
              res |-> item_at_index(prog, idx)]
  /\ prior' = last
  /\ nops' = nops + 1
  /\ UNCHANGED <<prog, app>>

ItemMutAt(idx) ==
  /\ nops < MaxOps
  /\ last' = [op |-> "item_mut_at_index", idx |-> idx, pre |-> prog,
              res |-> item_mut_at_index(prog, idx)]
  /\ prior' = last
  /\ nops' = nops + 1
  /\ UNCHANGED <<prog, app>>

NextRead ==
  \/ \E idx \in 0..(len(prog) + 1) : ItemAt(idx)
  \/ \E idx \in 0..(len(prog) + 1) : ItemMutAt(idx)

SpecRead == Init /\ [][NextRead]_vars

\* ------------------------------------------------------------------ load
\* A parsed file (ParameterIO): the names of the top-level lists it has,
\* whether it has a DemoAIActionIdx object, and its contents.
ListNames == Categories \cup {"Extra"}

PlainSeg(n) == [i \in 1..n |-> [PlainEntry EXCEPT !.key = i - 1]]

ParsedFiles ==
  {[lists |-> {k \in ListNames : n[k] >= 0},
    demo |-> d,
    body |-> [AI |-> PlainSeg(n["AI"]), Action |-> PlainSeg(n["Action"]),
              Behavior |-> PlainSeg(n["Behavior"]), Query |-> PlainSeg(n["Query"]),
              Extra |-> PlainSeg(n["Extra"]), Demo |-> <<>>,
              order |-> SelectSeq(CanonicalOrder \o <<"Extra">>, LAMBDA k : n[k] >= 0)]] :
     n \in [ListNames -> -1..MaxOther], d \in BOOLEAN}

\* AIProgram::new with `.any` replaced by `.all`.
new_all(pio) ==
  IF (\A k \in Categories : k \notin pio.lists) \/ ~pio.demo
  THEN [ok |-> FALSE]
  ELSE [ok |-> TRUE, p |-> pio.body]

\* AIProgram::new after a successful parse: Err("Invalid AI program.") or
\* Ok(Self(pio)).
new(pio) ==
  IF (\E k \in Categories : k \notin pio.lists) \/ ~pio.demo
  THEN [ok |-> FALSE]
  ELSE [ok |-> TRUE, p |-> pio.body]

\* The container of a specification that has not loaded one.
NoProgram ==
  [AI |-> <<>>, Action |-> <<>>, Behavior |-> <<>>, Query |-> <<>>, Extra |-> <<>>,
   Demo |-> <<>>, order |-> CanonicalOrder]

InitLoad ==
  /\ \E f \in ParsedFiles : last = [op |-> "parsed", pio |-> f]
  /\ prog = NoProgram
  /\ prior = [op |-> "none"]
  /\ nops = 0
  /\ app = AppIdle

Load ==
  /\ last.op = "parsed"
  /\ last' = [op |-> "new", pio |-> last.pio, res |-> new(last.pio)]
  /\ prior' = last
  /\ nops' = nops + 1
  /\ UNCHANGED <<prog, app>>

NextLoad == Load

SpecLoad == InitLoad /\ [][NextLoad]_vars

\* ------------------------------------------------------ wider containers
\* Loaded containers of up to MaxTotal AI and Action records, stored in
\* canonical order with slots numbered from 0, every AI record with its
\* ChildIdx object, reference values from -1 to the last index.
InitWide ==
  /\ \E nAI \in 1..MaxTotal : \E nAc \in 0..(MaxTotal - nAI) :
       LET vals == -1..(nAI + nAc - 1) IN
       \E a \in LoadedSegs("AI", nAI, MaxRefs, vals) :
       \E c \in LoadedSegs("Action", nAc, MaxRefs - a[2], vals) :
       \E d \in Objs(MaxRefs - a[2] - c[2], vals) :
         /\ \A i \in 1..nAI : a[1][i].hasChild
         /\ prog = [AI |-> Numbered(a[1], 0), Action |-> Numbered(c[1], 0),
                    Behavior |-> <<>>, Query |-> <<>>, Extra |-> <<>>,
                    Demo |-> d, order |-> CanonicalOrder]
  /\ app = AppIdle
  /\ last = [op |-> "load"]
  /\ prior = [op |-> "none"]
  /\ nops = 0

NextWide ==
  \/ \E category \in Categories : \E class \in Classes(category) : Insert(category, class)
  \/ \E idx \in 0..len(prog) : Delete(idx)

SpecWide == InitWide /\ [][NextWide]_vars

\* ---------------------------------------------------------- update_names
\* Names as Def.Name / Def.GroupName hold them: the name a caller gave, the
\* name of a ChildIdx slot (try_name of its key), or what the file had.
GivenName(s) == [kind |-> s, n |-> 0]

SlotName(k) == [kind |-> "slot", n |-> k]

\* An entry with its Def object: hasDef, Def.Name and Def.GroupName.
WithDef(e, hasDef) ==
  [key |-> e.key, cls |-> e.cls, hasChild |-> e.hasChild, child |-> e.child, beh |-> e.beh,
   hasDef |-> hasDef, name |-> GivenName("file"), group |-> GivenName("filegroup")]

\* The container with its record at (category, position) replaced.
PutEntry(p, loc, e) == [p EXCEPT ![loc[1]] = [@ EXCEPT ![loc[2]] = e]]

\* A ChildIdx parameter that is not a Parameter::Int, as a file may hold it;
\* the marker stands for no integer value.
NotAnInt == -2

\* `v.as_int()?` fails on some ChildIdx parameter of the record.
NotAllInt(e) == e.hasChild /\ \E k \in 1..Len(e.child) : e.child[k] = NotAnInt

\* child_updates: (v as usize, try_name(k)) for the ChildIdx slots not -1,
\* in slot order.
child_updates(e) ==
  IF e.hasChild
  THEN LET ks == SelectSeq([k \in 1..Len(e.child) |-> k], LAMBDA k : e.child[k] # -1)
       IN [j \in 1..Len(ks) |-> <<e.child[ks[j]], SlotName(ks[j])>>]
  ELSE <<>>

\* update_names with the recursive call passing the child's own current
\* Name instead of the slot's name.
RECURSIVE update_names_own_name(_, _, _, _, _)
update_names_own_name(p, idx, child, parent, fuel) ==
  LET loc == Locate(p, idx) IN
  IF fuel = 0 THEN [st |-> "overflow", p |-> p]
  ELSE IF loc[2] > Len(p[loc[1]]) THEN [st |-> "panic", p |-> p]
  ELSE IF ~p[loc[1]][loc[2]].hasDef THEN [st |-> "panic", p |-> p]
  ELSE
    LET e == p[loc[1]][loc[2]]
        ups == child_updates(e)
        RECURSIVE Each(_, _)
        Each(q, j) ==
          IF j > Len(ups) THEN [st |-> "ok", p |-> q]
          ELSE LET cl == Locate(q, ups[j][1])
                   own == IF cl[2] > Len(q[cl[1]]) THEN ups[j][2] ELSE q[cl[1]][cl[2]].name
                   r == update_names_own_name(q, ups[j][1], own, child, fuel - 1) IN
               IF r.st # "ok" THEN r ELSE Each(r.p, j + 1)
        written == PutEntry(p, loc, [e EXCEPT !.name = child, !.group = parent])
    IN IF NotAllInt(e) THEN [st |-> "err", p |-> written] ELSE Each(written, 1)

\* update_names(idx, child, parent): [st, p] with st "ok", "err" (the Err
\* of as_int), "panic" (an unwrap on None) or "overflow".  fuel counts the frames still allowed: a
\* path of more than len(p) + 1 frames revisits a record, so the recursion
\* is on a cycle and never returns.  The container is written in place, so
\* p is as far as the call got.
RECURSIVE update_names(_, _, _, _, _)
update_names(p, idx, child, parent, fuel) ==
  LET loc == Locate(p, idx) IN
  IF fuel = 0 THEN [st |-> "overflow", p |-> p]
  ELSE IF loc[2] > Len(p[loc[1]]) THEN [st |-> "panic", p |-> p]
  ELSE IF ~p[loc[1]][loc[2]].hasDef THEN [st |-> "panic", p |-> p]
  ELSE
    LET e == p[loc[1]][loc[2]]
        ups == child_updates(e)
        RECURSIVE Each(_, _)
        Each(q, j) ==
          IF j > Len(ups) THEN [st |-> "ok", p |-> q]
          ELSE LET r == update_names(q, ups[j][1], ups[j][2], child, fuel - 1) IN
               IF r.st # "ok" THEN r ELSE Each(r.p, j + 1)
        written == PutEntry(p, loc, [e EXCEPT !.name = child, !.group = parent])
    IN IF NotAllInt(e) THEN [st |-> "err", p |-> written] ELSE Each(written, 1)

\* Loaded containers for update_names: AI and Action records with Def
\* objects (at most one record without), ChildIdx values from -1 up to one
\* past the last record, or not an integer.
InitNames ==
  /\ \E nAI \in 1..MaxRecs, nAc \in 0..MaxOther :
       LET n == nAI + nAc IN
       \E a \in LoadedSegs("AI", nAI, MaxRefs, (-1..n) \cup {NotAnInt}) :
       \E nodef \in 0..n :
         prog = [AI |-> [i \in 1..nAI |-> WithDef(Numbered(a[1], 0)[i], i # nodef)],
                 Action |-> [i \in 1..nAc |-> WithDef([PlainEntry EXCEPT !.key = i - 1],
                                                       nAI + i # nodef)],
                 Behavior |-> <<>>, Query |-> <<>>, Extra |-> <<>>,
                 Demo |-> <<>>, order |-> CanonicalOrder]
  /\ app = AppIdle
  /\ last = [op |-> "load"]
  /\ prior = [op |-> "none"]
  /\ nops = 0

\* render_ai_children: a child is picked for a slot and update_names runs
\* with the slot's name and the parent's name.
UpdateNames(idx, child, parent) ==
  /\ nops < MaxOps
  /\ IF last.op = "load" THEN TRUE ELSE last.st = "ok"
  /\ \E r \in {update_names(prog, idx, child, parent, len(prog) + 1)} :
       /\ prog' = r.p
       /\ last' = [op |-> "update_names", idx |-> idx, child |-> child, parent |-> parent,
                   pre |-> prog, st |-> r.st]
  /\ prior' = last
  /\ nops' = nops + 1
  /\ UNCHANGED app

NextNames ==
  \E idx \in 0..len(prog) : \E k \in 1..MaxRefs :
    UpdateNames(idx, SlotName(k), GivenName("parent"))

SpecNames == InitNames /\ [][NextNames]_vars

\* ----------------------------------------------------------- application
\* Bound on the frames and worker steps of one run of the application.
MaxSteps == 10

\* Stands for usize::MAX, the value 0 - 1 wraps to: above every index.
UsizeMax == 2147483647

\* An AI entry of a file with one ChildIdx slot.
FileAI(c) == [key |-> 0, cls |-> "Loaded", hasChild |-> TRUE, child |-> <<c>>, beh |-> <<>>]

\* The files the user may pick: two AI records and one Action record, the
\* first AI with no child, itself or the second AI as child; and a file
\* without DemoAIActionIdx.
AppFile(c, d) ==
  [lists |-> Categories, demo |-> d,
   body |-> [AI |-> Numbered(<<FileAI(c), FileAI(-1)>>, 0),
             Action |-> Numbered(<<PlainEntry>>, 0),
             Behavior |-> <<>>, Query |-> <<>>, Extra |-> <<>>,
             Demo |-> <<2>>, order |-> CanonicalOrder]]

AppFiles == {AppFile(c, TRUE) : c \in -1..1} \cup {AppFile(1, FALSE)}

\* The closures handed to start_task, with what they captured by value.
LoadTask(f) == [kind |-> "new", file |-> <<f>>, snap |-> NoProgram]

TreeTask(p) == [kind |-> "to_tree", file |-> <<>>, snap |-> p]

SaveTask(p) == [kind |-> "save", file |-> <<>>, snap |-> p]

\* Result<Message> values travelling through the channel.
Msg(kind) == [kind |-> kind, p |-> NoProgram, tree |-> <<>>]

start_task(a, task) == [a EXCEPT !.show_busy = TRUE, !.tasks = Append(@, task)]

show_error(a) == [a EXCEPT !.show_error = TRUE]

\* The tab of the segment holding the selected index.
tab_of(p, sel) ==
  IF sel < actions_offset(p) THEN "AI"
  ELSE IF sel < behaviors_offset(p) THEN "Action"
  ELSE IF sel < queries_offset(p) THEN "Behavior"
  ELSE "Query"

\* handle_events, after the message: the tab follows the selection.
retab(s) ==
  LET a == s.a
      seen == IF a.last_selected[a.tab] = NoSel THEN 9999 ELSE a.last_selected[a.tab]
  IN IF ~a.dead /\ seen # a.selected_ai /\ a.loaded
     THEN LET t == tab_of(s.p, a.selected_ai) IN
          [s EXCEPT !.a.tab = t, !.a.last_selected[t] = a.selected_ai]
     ELSE s

\* handle_events after delete_entry(selected_ai) has returned r.
\* `selected_ai - 1` on 0 panics in a build with overflow checks and wraps
\* to usize::MAX in a build without.
deleted(b, r) ==
  IF ~r.ok THEN {[a |-> show_error(b), p |-> r.p]}
  ELSE IF b.selected_ai = 0
  THEN {[a |-> [b EXCEPT !.dead = TRUE], p |-> r.p],
        [a |-> start_task([b EXCEPT !.selected_ai = UsizeMax], TreeTask(r.p)), p |-> r.p]}
  ELSE {[a |-> start_task([b EXCEPT !.selected_ai = b.selected_ai - 1], TreeTask(r.p)),
         p |-> r.p]}

\* handle_events on the received message m: the states [a, p] it may leave.
on_message(a, p, m) ==
  LET b == [a EXCEPT !.show_busy = FALSE] IN
  CASE m.kind = "AIProgram" ->
         {[a |-> start_task([b EXCEPT !.selected_ai = 0,
                                      !.last_selected = [c \in Categories |-> NoSel],
                                      !.loaded = TRUE],
                            TreeTask(m.p)),
           p |-> m.p]}
    [] m.kind = "Tree" -> {[a |-> [b EXCEPT !.tree = m.tree], p |-> p]}
    [] m.kind = "Delete" -> UNION {deleted(b, r) : r \in {delete_entry(p, b.selected_ai)}}
    [] m.kind = "Err" -> {[a |-> show_error(b), p |-> p]}
    [] OTHER -> {[a |-> b, p |-> p]}

\* handle_events: try_recv takes at most one message.
handle_events(a, p) ==
  IF a.chan = <<>> THEN {retab([a |-> a, p |-> p])}
  ELSE {retab(s) : s \in on_message([a EXCEPT !.chan = Tail(@)], p, Head(a.chan))}

InitApp ==
  /\ prog = NoProgram
  /\ app = AppIdle
  /\ last = [op |-> "start", thread |-> "ui", pre |-> NoProgram, started |-> <<>>]
  /\ prior = [op |-> "none"]
  /\ nops = 0

\* The tasks a step has started.
Started(before, after) == SubSeq(after.tasks, Len(before.tasks) + 1, Len(after.tasks))

\* An input handled by one of the render_* methods of update(), leaving the
\* application as a1 and the container as p1; handle_events is next.
Render(op, a1, p1) ==
  /\ nops < MaxSteps
  /\ ~app.dead
  /\ app.phase = "render"
  /\ app' = [a1 EXCEPT !.phase = "events"]
  /\ prog' = p1
  /\ last' = [op |-> op, thread |-> "ui", pre |-> prog, started |-> Started(app, a1)]
  /\ nops' = nops + 1
  /\ UNCHANGED prior

\* File > Open with a file picked.
Open(f) == Render("open", start_task(app, LoadTask(f)), prog)

\* File > Save.
Save ==
  /\ app.loaded
  /\ Render("save", start_task(app, SaveTask(prog)), prog)

\* File > Save As with a file picked: `self.aiprog.clone().unwrap()` panics
\* when no container is loaded.
SaveAs ==
  Render("save_as",
         IF app.loaded THEN start_task(app, SaveTask(prog)) ELSE [app EXCEPT !.dead = TRUE],
         prog)

\* A click on the tab of a non-empty segment.
ClickTab(category) ==
  /\ app.loaded
  /\ prog[category] # <<>>
  /\ Render("tab",
            [app EXCEPT !.tab = category,
                        !.selected_ai = IF app.last_selected[category] = NoSel
                                        THEN SegOffset(prog, category)
                                        ELSE app.last_selected[category]],
            prog)

\* "Current Entry": an entry of the current tab's segment is chosen.
SelectEntry(i) ==
  /\ app.loaded
  /\ i < Len(prog[app.tab])
  /\ Render("select", [app EXCEPT !.selected_ai = i + SegOffset(prog, app.tab)], prog)

ClickAdd ==
  /\ app.loaded
  /\ Render("add_new", [app EXCEPT !.show_add = TRUE], prog)

\* What the OK button of "Add New Entry" does once add_entry has returned r.
added(a, r) ==
  IF r.ok THEN start_task([a EXCEPT !.show_add = FALSE, !.selected_ai = r.ret], TreeTask(r.p))
  ELSE show_error([a EXCEPT !.show_add = FALSE])

\* OK in the "Add New Entry" window: add_entry runs on the UI thread.
AddOk(class) ==
  /\ app.show_add
  /\ \E r \in {add_entry(prog, app.tab, class)} : Render("add_entry", added(app, r), r.p)

CloseAdd ==
  /\ app.show_add
  /\ Render("close_add", [app EXCEPT !.show_add = FALSE], prog)

ClickDelete ==
  /\ app.loaded
  /\ Render("delete_selected", [app EXCEPT !.show_confirm = TRUE], prog)

\* OK in the "Confirm" window: the Delete message is sent to the channel.
ConfirmOk ==
  /\ app.show_confirm
  /\ Render("confirm_ok",
            [app EXCEPT !.show_confirm = FALSE, !.chan = Append(@, Msg("Delete"))],
            prog)

CloseConfirm ==
  /\ app.show_confirm
  /\ Render("close_confirm", [app EXCEPT !.show_confirm = FALSE], prog)

\* handle_events, the last call of update(): after the input of the frame,
\* or in a frame without input.
HandleEvents ==
  /\ nops < MaxSteps
  /\ ~app.dead
  /\ \E s \in handle_events(app, prog) :
       /\ app' = [s.a EXCEPT !.phase = "render"]
       /\ prog' = s.p
       /\ last' = [op |-> "handle_events", thread |-> "ui", pre |-> prog,
                   started |-> Started(app, s.a),
                   msg |-> IF app.chan = <<>> THEN "none" ELSE Head(app.chan).kind,
                   sel |-> app.selected_ai]
  /\ nops' = nops + 1
  /\ UNCHANGED prior

\* What the thread of a task does: nothing (the thread panicked), the
\* whole process aborted, or one Result<Message> sent.
task_outcomes(t) ==
  CASE t.kind = "new" ->
         LET r == new(t.file[1]) IN
         {[dead |-> FALSE,
           sent |-> IF r.ok THEN <<[Msg("AIProgram") EXCEPT !.p = r.p]>> ELSE <<Msg("Err")>>]}
    [] t.kind = "to_tree" ->
         {IF IsCrash(r)
          THEN [dead |-> (r.crash = "StackOverflow"), sent |-> <<>>]
          ELSE [dead |-> FALSE,
                sent |-> IF r.ok THEN <<[Msg("Tree") EXCEPT !.tree = r.v]>> ELSE <<Msg("Err")>>] :
            r \in {to_tree(t.snap)}}
    [] t.kind = "save" ->
         {[dead |-> FALSE, sent |-> <<Msg("Null")>>], [dead |-> FALSE, sent |-> <<Msg("Err")>>]}

\* The thread of a load task storing the container it built into the
\* application instead of sending it.
WorkerRun_shared(i) ==
  /\ nops < MaxSteps
  /\ ~app.dead
  /\ i \in 1..Len(app.tasks)
  /\ LET t == app.tasks[i] IN
     \E o \in task_outcomes(t) :
       /\ app' = [app EXCEPT !.tasks = RemoveAt(@, i), !.dead = o.dead]
       /\ prog' = IF o.sent # <<>> /\ o.sent[1].kind = "AIProgram" THEN o.sent[1].p ELSE prog
       /\ last' = [op |-> t.kind, thread |-> "worker", pre |-> prog, started |-> <<>>]
  /\ nops' = nops + 1
  /\ UNCHANGED prior

\* The thread spawned by start_task runs its closure on what the closure
\* captured and sends the result; it may do so at any point of a frame.
WorkerRun(i) ==
  /\ nops < MaxSteps
  /\ ~app.dead
  /\ i \in 1..Len(app.tasks)
  /\ LET t == app.tasks[i] IN
     \E o \in task_outcomes(t) :
       /\ app' = [app EXCEPT !.tasks = RemoveAt(@, i), !.chan = @ \o o.sent, !.dead = o.dead]
       /\ last' = [op |-> t.kind, thread |-> "worker", pre |-> prog, started |-> <<>>]
  /\ nops' = nops + 1
  /\ UNCHANGED <<prog, prior>>

NextApp ==
  \/ \E f \in AppFiles : Open(f)
  \/ Save
  \/ SaveAs
  \/ \E category \in Categories : ClickTab(category)
  \/ \E i \in 0..(MaxTotal - 1) : SelectEntry(i)
  \/ ClickAdd
  \/ \E class \in Classes(app.tab) : AddOk(class)
  \/ CloseAdd
  \/ ClickDelete
  \/ ConfirmOk
  \/ CloseConfirm
  \/ HandleEvents
  \/ \E i \in 1..MaxSteps : WorkerRun(i)

SpecApp == InitApp /\ [][NextApp]_vars

\* ------------------------------------------------------------ properties
Range(f) == {f[k] : k \in DOMAIN f}

\* Values of all reference slots of a container.
RefVals(p) ==
  Range(p.Demo)
  \cup UNION {Range(p.AI[i].child) \cup Range(p.AI[i].beh) : i \in 1..Len(p.AI)}
  \cup UNION {Range(p.Action[i].beh) : i \in 1..Len(p.Action)}

ValidRefs(p) == \A v \in RefVals(p) : v = -1 \/ (0 <= v /\ v < len(p))

\* The segments and references of a container, slot names left aside.
Unkeyed(p) ==
  [c \in Categories |-> [i \in 1..Len(p[c]) |-> [p[c][i] EXCEPT !.key = 0]]]

Deleted == last.op = "delete_entry" /\ last.ok /\ last.idx < len(last.pre)

Inserted == last.op = "add_entry" /\ last.ok

\* An Insert that appended a record at the end of its segment.
Appended == Inserted /\ Len(prog[last.category]) = Len(last.pre[last.category]) + 1

\* The container a Delete was called on, without the record it removes:
\* its slots line up one to one with the slots of the container afterwards.
Survivors(p, idx) ==
  LET loc == Locate(p, idx) IN [p EXCEPT ![loc[1]] = RemoveAt(p[loc[1]], loc[2])]

\* ChildIdx and DemoAIActionIdx slots as <<before, after>> value pairs, for
\* two containers whose records and slots line up.
SlotPairs(p, q) ==
  {<<p.Demo[k], q.Demo[k]>> : k \in 1..Len(p.Demo)}
  \cup UNION {{<<p.AI[i].child[k], q.AI[i].child[k]>> : k \in 1..Len(p.AI[i].child)} :
              i \in 1..Len(p.AI)}

\* C1: starting from a container whose references are all -1 or below
\* total_count, every non-negative reference value stays below total_count
\* after any sequence of Insert and Delete operations.
C1_NoDanglingReference == \A v \in RefVals(prog) : v >= 0 => v < len(prog)

\* C2: Insert(S, class) returning g, immediately followed by Delete(g),
\* restores every other record's global index and every reference slot.
C2_RoundTrip ==
  (/\ Deleted
   /\ prior.op = "add_entry" /\ prior.ok
   /\ last.idx = prior.ret
   /\ len(last.pre) = len(prior.pre) + 1)
  => Unkeyed(prog) = Unkeyed(prior.pre) /\ prog.Demo = prior.pre.Demo

\* C3: after Delete(idx), every ChildIdx or DemoAIActionIdx slot that held
\* j > idx holds j - 1, and every slot that held j < idx is unchanged.
C3_DeleteShiftsDown ==
  Deleted =>
    \A s \in SlotPairs(Survivors(last.pre, last.idx), prog) :
      /\ s[1] > last.idx => s[2] = s[1] - 1
      /\ s[1] < last.idx => s[2] = s[1]

\* C4: after Delete(idx), every ChildIdx or DemoAIActionIdx slot that held
\* idx holds -1.
C4_DeleteClears ==
  Deleted =>
    \A s \in SlotPairs(Survivors(last.pre, last.idx), prog) :
      s[1] = last.idx => s[2] = -1

\* C5: Insert(S, class) rewrites every ChildIdx or DemoAIActionIdx slot whose
\* value g is at or after the insertion point (the old end of S) to g + 1
\* and leaves every slot below the insertion point, or -1, unchanged.
C5_InsertShiftsUp ==
  Appended =>
    \A s \in SlotPairs(last.pre, prog) :
      /\ s[1] >= SegEnd(last.pre, last.category) => s[2] = s[1] + 1
      /\ s[1] < SegEnd(last.pre, last.category) => s[2] = s[1]

\* What identifies a record apart from its reference values.
Identity(e) == <<e.key, e.cls, e.hasChild, Len(e.child), Len(e.beh)>>

\* C6: Insert(S, class) returns the global index of the old end of S; the
\* record there is the newly seeded one, |S| and total_count have grown by
\* one and every pre-existing record is still in its place.
C6_InsertAppends ==
  Inserted =>
    LET pre == last.pre
        c == last.category
    IN /\ last.ret = SegOffset(pre, c) + Len(pre[c])
       /\ Len(prog[c]) = Len(pre[c]) + 1
       /\ len(prog) = len(pre) + 1
       /\ item_at_index(prog, last.ret)
            = [blank_ai(c, last.class) EXCEPT !.key = Len(pre[c])]
       /\ \A d \in Categories : \A i \in 1..Len(pre[d]) :
            /\ i <= Len(prog[d])
            /\ Identity(prog[d][i]) = Identity(pre[d][i])

\* C7: Reindex(old, new) overwrites with new every ChildIdx and
\* DemoAIActionIdx slot that held old, two slots of one record included,
\* and changes no other such slot.
C7_ReindexAllLocations ==
  (last.op = "update_indexes" /\ last.ok) =>
    \A s \in SlotPairs(last.pre, prog) :
      /\ s[1] = last.old => s[2] = last.new
      /\ s[1] # last.old => s[2] = s[1]

\* AI indices held by some ChildIdx slot of an AI record.
ChildTargets(p) == UNION {Range(p.AI[i].child) : i \in 1..Len(p.AI)}

IsAscending(s) == \A j \in 1..(Len(s) - 1) : s[j] < s[j + 1]

\* C8: where roots() succeeds, it lists exactly the AI records that no AI
\* record's ChildIdx slot holds (a self-reference counts), in ascending
\* order without duplicates.
C8_RootCorrectness ==
  (last.op = "roots" /\ last.res.ok) =>
    /\ Range(last.res.v) = {i \in 0..(Len(prog.AI) - 1) : i \notin ChildTargets(prog)}
    /\ IsAscending(last.res.v)

C8_Witness ==
  /\ last.op = "roots" /\ last.res.ok
  /\ Len(last.res.v) >= 1
  /\ \E i \in 1..Len(prog.AI) : (i - 1) \in Range(prog.AI[i].child)
  /\ \E i \in 0..(Len(prog.AI) - 1) : i \in ChildTargets(prog) /\ i \notin Range(last.res.v)

\* The records in the canonical order AI, Action, Behavior, Query.
all_records(p) == p.AI \o p.Action \o p.Behavior \o p.Query

\* The tree of record idx: the record at global index idx and, as
\* children, the trees of its non-negative ChildIdx values in slot order.
RECURSIVE TreeOf(_, _, _)
TreeOf(p, idx, fuel) ==
  IF fuel = 0 \/ idx >= Len(all_records(p)) THEN Crash("NoTree")
  ELSE LET e == all_records(p)[idx + 1]
           slots == IF e.hasChild THEN SelectSeq(e.child, LAMBDA v : v >= 0) ELSE <<>>
       IN [name |-> e.cls, idx |-> idx,
           kids |-> [k \in 1..Len(slots) |-> TreeOf(p, slots[k], fuel - 1)]]

ToTreeOk == last.op = "to_tree" /\ ~IsCrash(last.res) /\ last.res.ok

\* C9: to_tree() yields one tree per root, in root order; each node carries
\* its record's global index and has as children the records named by the
\* non-negative values of that record's ChildIdx slots, in slot order.
C9_TreeShape ==
  ToTreeOk =>
    LET r == roots(last.pre).v IN
    last.res.v = [k \in 1..Len(r) |-> TreeOf(last.pre, r[k], len(last.pre) + 1)]

SegmentTotal(p) == Len(p.AI) + Len(p.Action) + Len(p.Behavior) + Len(p.Query)

\* C11: in every reachable state 0 <= actions_offset <= behaviors_offset <=
\* queries_offset <= total_count, the offsets being the sums of the current
\* segment sizes.
C11_OffsetMonotonicity ==
  /\ 0 <= actions_offset(prog)
  /\ actions_offset(prog) <= behaviors_offset(prog)
  /\ behaviors_offset(prog) <= queries_offset(prog)
  /\ queries_offset(prog) <= len(prog)
  /\ actions_offset(prog) = Len(prog.AI)
  /\ behaviors_offset(prog) = Len(prog.AI) + Len(prog.Action)
  /\ queries_offset(prog) = Len(prog.AI) + Len(prog.Action) + Len(prog.Behavior)

C11_Witness ==
  /\ last.op \in {"add_entry", "delete_entry"} /\ last.ok
  /\ SegmentTotal(prog) # SegmentTotal(last.pre)
  /\ 0 < actions_offset(prog)
  /\ actions_offset(prog) < behaviors_offset(prog)
  /\ behaviors_offset(prog) < queries_offset(prog)

C13_LoadValidity ==
  last.op = "new" =>
    /\ last.res.ok <=> (Categories \subseteq last.pio.lists /\ last.pio.demo)
    /\ last.res.ok => last.res.p = last.pio.body
    /\ ~last.res.ok => "p" \notin DOMAIN last.res

C13_Witness ==
  /\ last.op = "new" /\ ~last.res.ok
  /\ Cardinality(last.pio.lists \cap Categories) = 3
  /\ last.pio.demo

\* C14: failure atomicity: when Insert or Delete returns an error, the
\* container is identical to its state before the call.
C14_FailureAtomicity ==
  (last.op \in {"add_entry", "delete_entry"} /\ ~last.ok) => prog = last.pre

\* A Delete that failed on a record other slots refer to, after an Insert
\* that failed with references to shift.
C14_Witness ==
  /\ last.op = "delete_entry" /\ ~last.ok
  /\ last.idx < SegmentTotal(last.pre)
  /\ last.idx \in RefVals(last.pre)
  /\ prior.op = "add_entry" /\ ~prior.ok
  /\ \E v \in RefVals(prior.pre) : v >= SegEnd(prior.pre, prior.category)

\* The error value the lookup is specified to return.
OutOfRange == [err |-> "OutOfRange"]

\* C15: item_at_index / item_mut_at_index called with an index at or past
\* total_count returns an OutOfRange error; it neither crashes nor returns
\* some record.
C15_OutOfRangeError ==
  (/\ last.op \in {"item_at_index", "item_mut_at_index"}
   /\ last.idx >= SegmentTotal(last.pre))
  => last.res = OutOfRange

\* Class and shape of the records of each segment, slot names and reference
\* values left aside.
Shapes(p) ==
  [c \in Categories |->
     [i \in 1..Len(p[c]) |-> <<p[c][i].cls, p[c][i].hasChild,
                               Len(p[c][i].child), Len(p[c][i].beh)>>]]

AllHaveChildIdx(p) == \A i \in 1..Len(p.AI) : p.AI[i].hasChild

\* C16: on a container in which every AI record has a ChildIdx object,
\* Delete(idx) with idx < total_count succeeds and removes the record at
\* idx, whether or not other records still refer to it and whether or not
\* it is the last remaining root.
C16_DeleteNeverRejected ==
  (/\ last.op = "delete_entry"
   /\ AllHaveChildIdx(last.pre)
   /\ last.idx < SegmentTotal(last.pre))
  => /\ last.ok
     /\ SegmentTotal(prog) = SegmentTotal(last.pre) - 1
     /\ Shapes(prog) = Shapes(Survivors(last.pre, last.idx))

\* The only root of a container of two AI records, still referred to by a
\* DemoAIActionIdx slot, has been deleted.
C16_Witness ==
  /\ last.op = "delete_entry" /\ last.ok
  /\ AllHaveChildIdx(last.pre)
  /\ last.idx < SegmentTotal(last.pre)
  /\ roots(last.pre) = [ok |-> TRUE, v |-> <<last.idx>>]
  /\ last.idx \in Range(last.pre.Demo)
  /\ Len(last.pre.AI) = 2

BehaviourPairs(p, q) ==
  UNION {{<<p.AI[i].beh[k], q.AI[i].beh[k]>> : k \in 1..Len(p.AI[i].beh)} :
         i \in 1..Len(p.AI)}
  \cup UNION {{<<p.Action[i].beh[k], q.Action[i].beh[k]>> : k \in 1..Len(p.Action[i].beh)} :
              i \in 1..Len(p.Action)}

\* C18: Reindex(old, new) for old in the Behavior segment rewrites exactly
\* the BehaviorIdx slots holding old - behaviors_offset, to
\* new - behaviors_offset (-1 when new = -1); every other BehaviorIdx slot,
\* one holding the raw global index old included, is unchanged.
C18_BehaviourLocalSpace ==
  (/\ last.op = "update_indexes" /\ last.ok
   /\ behaviors_offset(last.pre) <= last.old
   /\ last.old < queries_offset(last.pre))
  => \A s \in BehaviourPairs(last.pre, prog) :
       IF s[1] = last.old - behaviors_offset(last.pre)
       THEN s[2] = (IF last.new = -1 THEN -1 ELSE last.new - behaviors_offset(last.pre))
       ELSE s[2] = s[1]

\* C19: Insert or Delete of a record in the AI, Action or Query segment
\* leaves the value of every BehaviorIdx slot of every surviving record
\* unchanged.
C19_BehaviourSlotsFramed ==
  /\ (Appended /\ last.category # "Behavior")
     => \A s \in BehaviourPairs(last.pre, prog) : s[2] = s[1]
  /\ (/\ Deleted
      /\ last.idx < SegmentTotal(last.pre)
      /\ Locate(last.pre, last.idx)[1] # "Behavior")
     => \A s \in BehaviourPairs(Survivors(last.pre, last.idx), prog) : s[2] = s[1]

\* C20: an AI record without a ChildIdx object is valid when its class
\* defines no children: after Insert(AI, class) for such a class, on a
\* container whose AI records all had ChildIdx, the next roots(), to_tree(),
\* Insert or Delete does not fail.
C20_ChildlessClassValid ==
  (/\ prior.op = "add_entry" /\ prior.ok
   /\ prior.category = "AI"
   /\ ~blank_ai("AI", prior.class).hasChild
   /\ AllHaveChildIdx(prior.pre))
  => /\ last.op = "roots" => last.res.ok
     /\ last.op = "to_tree" => (IsCrash(last.res) \/ last.res.ok)
     /\ last.op \in {"add_entry", "delete_entry"} => last.ok

\* C21: Delete(idx) with idx at or past total_count returns an error and
\* leaves the container unchanged; it does not report success.
C21_DeleteOutOfRange ==
  (last.op = "delete_entry" /\ last.idx >= SegmentTotal(last.pre))
  => ~last.ok /\ prog = last.pre

\* C22: Delete(idx) with idx < total_count removes exactly the record at
\* idx: its segment shrinks by one, the other three keep their sizes, and
\* the surviving records keep their relative order within their segment.
C22_DeleteRemovesExactlyOne ==
  (last.op = "delete_entry" /\ last.ok /\ last.idx < SegmentTotal(last.pre))
  => LET seg == Locate(last.pre, last.idx)[1] IN
     /\ \A c \in Categories :
          Len(prog[c]) = Len(last.pre[c]) - (IF c = seg THEN 1 ELSE 0)
     /\ \A c \in Categories : \A i \in 1..Len(prog[c]) :
          Shapes(prog)[c][i] =
            Shapes(last.pre)[c][IF c = seg /\ i >= Locate(last.pre, last.idx)[2]
                                THEN i + 1 ELSE i]

\* The first of three records of a segment was deleted, and the two that
\* remain differ in shape, so their order shows.
C22_Witness ==
  /\ last.op = "delete_entry" /\ last.ok
  /\ last.idx < SegmentTotal(last.pre)
  /\ LET loc == Locate(last.pre, last.idx) IN
       /\ loc[2] = 1
       /\ Len(last.pre[loc[1]]) = 3
       /\ Shapes(last.pre)[loc[1]][2] # Shapes(last.pre)[loc[1]][3]

\* Slot names "<Segment>_<i>" by position, i from 0.
KeyedByPosition(seg) == \A i \in 1..Len(seg) : seg[i].key = i - 1

\* C23: after a successful Delete(idx), every record of the segment that
\* contained idx is keyed "<Segment>_<i>" by its position i, whatever the
\* slot names were before the call.
C23_DeleteRenumbers ==
  (last.op = "delete_entry" /\ last.ok /\ last.idx < SegmentTotal(last.pre))
  => KeyedByPosition(prog[Locate(last.pre, last.idx)[1]])

\* A record was deleted from a segment of two whose slots were numbered
\* from 1, and the survivor was not keyed by its new position.
C23_Witness ==
  /\ last.op = "delete_entry" /\ last.ok
  /\ last.idx < SegmentTotal(last.pre)
  /\ LET seg == Locate(last.pre, last.idx)[1] IN
       /\ Len(last.pre[seg]) = 2
       /\ \A i \in 1..2 : last.pre[seg][i].key = i

\* C24: after a successful Insert(S, class), every record of S is keyed
\* "<S>_<i>" by its position i, also when the slot names of S were not
\* numbered by position before the call.
C24_InsertRenumbers == Inserted => KeyedByPosition(prog[last.category])

\* C25: Insert into the Query segment rewrites no reference slot and no
\* pre-existing record; the only change is the new record appended at the
\* global index equal to the old total_count.
C25_QueryInsertFrame ==
  (Inserted /\ last.category = "Query")
  => /\ prog.Demo = last.pre.Demo
     /\ \A c \in {"AI", "Action", "Behavior"} : prog[c] = last.pre[c]
     /\ Len(prog.Query) = Len(last.pre.Query) + 1
     /\ SubSeq(prog.Query, 1, Len(last.pre.Query)) = last.pre.Query
     /\ last.ret = SegmentTotal(last.pre)

\* Values of the ChildIdx and DemoAIActionIdx slots of a container.
ChildDemoVals(p) ==
  Range(p.Demo) \cup UNION {Range(p.AI[i].child) : i \in 1..Len(p.AI)}

\* C26: right after Insert(S, class) returns g on a container whose
\* references were all valid, no ChildIdx or DemoAIActionIdx slot holds g
\* and every ChildIdx slot of the new record is -1.
C26_NewRecordUnreferenced ==
  (Appended /\ ValidRefs(last.pre))
  => /\ last.ret \notin ChildDemoVals(prog)
     /\ \A v \in Range(item_at_index(prog, last.ret).child) : v = -1

\* ------------------------------------------------- update_names: claims
\* The record at a combined index (the index is in range).
Rec(p, i) == p[Locate(p, i)[1]][Locate(p, i)[2]]

\* ChildIdx edges <<parent, slot, child>> over combined indices.
ChildEdges(p) ==
  UNION {{<<i, k, Rec(p, i).child[k]>> :
            k \in {k \in DOMAIN Rec(p, i).child : Rec(p, i).child[k] # -1}}
         : i \in 0..(SegmentTotal(p) - 1)}

\* A record without its Def names.
Unnamed(e) == [e EXCEPT !.name = GivenName(""), !.group = GivenName("")]

RECURSIVE ReachFrom(_, _)
ReachFrom(p, S) ==
  LET T == S \cup {e[3] : e \in {e \in ChildEdges(p) : e[1] \in S}}
  IN IF T = S THEN S ELSE ReachFrom(p, T)

\* Records reachable from idx through ChildIdx slots that are not -1.
Reach(p, idx) == ReachFrom(p, {idx})

UpdatedOk == last.op = "update_names" /\ last.st = "ok"

\* C27 as stated: update_names sets Name and GroupName on record idx, gives
\* every record reachable through ChildIdx its parent's name as GroupName
\* and leaves its Name as it was; other records are unchanged.
C27_NamesPropagated ==
  UpdatedOk =>
    LET R == Reach(last.pre, last.idx) IN
    /\ Rec(prog, last.idx).name = last.child
    /\ Rec(prog, last.idx).group = last.parent
    /\ \A c \in R \ {last.idx} :
         /\ Rec(prog, c).name = Rec(last.pre, c).name
         /\ \E e \in ChildEdges(last.pre) :
              e[1] \in R /\ e[3] = c /\ Rec(prog, c).group = Rec(prog, e[1]).name
    /\ \A c \in (0..(SegmentTotal(prog) - 1)) \ R : Rec(prog, c) = Rec(last.pre, c)

\* C27 amended: a call of update_names that returns has set Name and
\* GroupName on record idx, and every other record reachable through
\* ChildIdx has the name of a slot that refers to it as Name and the name of
\* that slot's record as GroupName; nothing else of any record has changed.
C27_SlotNamesPropagated ==
  UpdatedOk =>
    LET R == Reach(last.pre, last.idx) IN
    /\ Rec(prog, last.idx).name = last.child
    /\ Rec(prog, last.idx).group = last.parent
    /\ \A c \in R \ {last.idx} :
         \E e \in ChildEdges(last.pre) :
           /\ e[1] \in R /\ e[3] = c
           /\ Rec(prog, c).name = SlotName(e[2])
           /\ Rec(prog, c).group = Rec(prog, e[1]).name
    /\ \A c \in (0..(SegmentTotal(prog) - 1)) \ R : Rec(prog, c) = Rec(last.pre, c)
    /\ SegmentTotal(prog) = SegmentTotal(last.pre)
    /\ \A c \in 0..(SegmentTotal(prog) - 1) : Unnamed(Rec(prog, c)) = Unnamed(Rec(last.pre, c))

\* A returning call on a record with a child and a grandchild.
C27_Witness ==
  /\ UpdatedOk
  /\ \E e \in ChildEdges(last.pre), f \in ChildEdges(last.pre) :
       /\ e[1] = last.idx /\ f[1] = e[3] /\ f[3] # e[3]
       /\ Rec(prog, f[3]).name = SlotName(f[2])
       /\ Rec(last.pre, f[3]).name = GivenName("file")

\* C28: update_names terminates on every container, also when a ChildIdx
\* cycle is reachable from idx: no call recurses without end.
C28_UpdateNamesTerminates == last.op = "update_names" => last.st # "overflow"

\* ------------------------------------------------------ ChildIdx cycles
\* The records a record's ChildIdx slots refer to.
Succ(p, c) == {e[3] : e \in {e \in ChildEdges(p) : e[1] = c}}

\* The record is reachable from itself through ChildIdx references.
OnCycle(p, c) == Succ(p, c) # {} /\ c \in ReachFrom(p, Succ(p, c))

CycleFrom(p, s) == \E c \in Reach(p, s) : c < SegmentTotal(p) /\ OnCycle(p, c)

\* C29: the tree build from a root returns a tree when the ChildIdx graph
\* reachable from that root is acyclic with every value below total_count,
\* and never returns a tree when a ChildIdx cycle is reachable from it.
C29_NoCycleDetection ==
  (last.op = "to_tree" /\ roots(prog).ok) =>
    \A s \in Range(roots(prog).v) :
      \E t \in {ai_to_tree(prog, s, len(prog) + 1)} :
        /\ ((\A c \in Reach(prog, s) : c < SegmentTotal(prog)) /\ ~CycleFrom(prog, s))
             => ~IsCrash(t)
        /\ CycleFrom(prog, s) => IsCrash(t)

\* No record is reachable from itself through ChildIdx references.
Acyclic(p) == \A c \in 0..(SegmentTotal(p) - 1) : ~OnCycle(p, c)

Mutation(l) == l.op \in {"add_entry", "delete_entry"}

\* C30: from a container with an acyclic ChildIdx graph and valid
\* references, one Insert or Delete, or two of them in a row, leave the
\* ChildIdx graph acyclic.
C30_AcyclicityPreserved ==
  /\ (Mutation(last) /\ Acyclic(last.pre) /\ ValidRefs(last.pre)) => Acyclic(prog)
  /\ (Mutation(last) /\ Mutation(prior) /\ Acyclic(prior.pre) /\ ValidRefs(prior.pre))
       => Acyclic(prog)

\* ------------------------------------------------------ reference floor
\* C31: from a loaded container whose reference slots are all >= -1, every
\* ChildIdx, BehaviorIdx and DemoAIActionIdx slot is still >= -1 after any
\* sequence of Insert and Delete.
C31_NoReferenceBelowAbsent == \A v \in RefVals(prog) : v >= -1

\* C32: a failed update_names (a record without Def, a ChildIdx value that
\* is no valid index, a ChildIdx parameter that is not an integer) leaves
\* every Def.Name and Def.GroupName as it was.
C32_FailedUpdateNamesAtomic ==
  (last.op = "update_names" /\ last.st \in {"err", "panic"}) => prog = last.pre

\* ------------------------------------------------------- displayed tree
\* Every started task has finished and every result has been received.
Quiescent == app.loaded /\ ~app.dead /\ app.tasks = <<>> /\ app.chan = <<>>

\* C33: once the results of all started worker tasks have been received,
\* the displayed tree is to_tree() of the application's current container,
\* in whatever order the worker threads finished.
C33_TreeConverges ==
  Quiescent =>
    \E r \in {to_tree(prog)} : (~IsCrash(r) /\ r.ok) => app.tree = r.v

\* -------------------------------------------------- selection after Delete
\* C34: after handle_events has handled a Delete message and delete_entry
\* returned Ok, the selected index is below total_count when the container
\* is not empty, and a selection of 0 stays 0: no unsigned underflow.
C34_SelectionAfterDelete ==
  (last.op = "handle_events" /\ last.msg = "Delete") =>
    \E r \in {delete_entry(last.pre, last.sel)} :
      r.ok =>
        /\ ~app.dead
        /\ SegmentTotal(prog) > 0 => app.selected_ai < SegmentTotal(prog)
        /\ last.sel = 0 => app.selected_ai = 0

====
